---- MODULE Spec2Model ----
(***************************************************************************)
(* A model of app.py: the Flask summarizer service.                        *)
(*                                                                         *)
(* Texts are modelled as sequences of words (what str.split() returns);    *)
(* a word is a record [s |-> letters, dot |-> ends with a period].  The    *)
(* text handed to the engine is whitespace-normalised (clean_text), so a   *)
(* text and its word sequence determine each other.  Words carry at most   *)
(* one period, at their end.                                               *)
(***************************************************************************)
EXTENDS Integers, Sequences, FiniteSets, TLC

VARIABLES
    TRANSFORMER_AVAILABLE, \* app.py:29-37, set once at import
    SPACY_AVAILABLE,       \* app.py:3-8, 38-43, set once at import
    history_file,          \* summary_history.json
    now,                   \* the clock read by datetime.now()
    saved,                 \* log of the entries whose save_to_history call completed
    pc,                    \* position of each concurrent save_to_history call
    loaded,                \* the local list `history` of each concurrent call
    gs,                    \* the last generate_summary call: arguments and outcome
    ents,                  \* the last extract_entities call: argument and result
    response,              \* the last HTTP response
    request                \* the JSON body of the last POST /summarize

vars == <<TRANSFORMER_AVAILABLE, SPACY_AVAILABLE, history_file, now, saved,
          pc, loaded, gs, ents, response, request>>

----------------------------------------------------------------------------
(* Bounds of the model *)

MaxClock == 56
MaxConcSaves == 4
NumWorkers == 2

----------------------------------------------------------------------------
(* Program constants *)

HistoryCap == 50
PreviewChars == 200
HistoryPage == 10

----------------------------------------------------------------------------
(* Words and texts *)

W(s) == [s |-> s, dot |-> FALSE]
WD(s) == [s |-> s, dot |-> TRUE]

\* Number of characters of each word of the vocabulary, its period not counted.
Letters(s) ==
    CASE s \in {"a", "5"} -> 1
      [] s \in {"of", "at", "50"} -> 2
      [] s \in {"the", "Bob"} -> 3
      [] s \in {"data", "word", "Text", "$500", "2024"} -> 4
      [] s \in {"Alice", "model", "least", "short", "Error", "words"} -> 5
      [] s \in {"Please", "result"} -> 6
      [] s \in {"million", "provide", "timeout"} -> 7
      [] s \in {"summary:"} -> 8
      [] s \in {"12/05/2024", "meaningful", "generating"} -> 10
      [] s \in {"summarization"} -> 13
      [] OTHER -> 3

\* str.lower() on a word of the vocabulary.
Lower(s) ==
    CASE s = "Alice" -> "alice"
      [] s = "Bob" -> "bob"
      [] s = "Text" -> "text"
      [] s = "The" -> "the"
      [] s = "Please" -> "please"
      [] s = "Error" -> "error"
      [] OTHER -> s

\* The sequence f, every element computed once.
Tuple(f) == SubSeq(f, 1, Len(f))

\* len(word)
WordLen(w) == Letters(w.s) + (IF w.dot THEN 1 ELSE 0)

\* The distinct words of a text.
WordsOf(text) == {text[i] : i \in DOMAIN text}

\* How many times word w occurs in text.
Count(text, w) == Cardinality({i \in DOMAIN text : text[i] = w})

RECURSIVE SumOver(_, _)
\* SumOver(S, f): the sum of f[x] over the finite set S.
SumOver(S, f) ==
    IF S = {} THEN 0
    ELSE LET x == CHOOSE y \in S : TRUE
         IN f[x] + SumOver(S \ {x}, f)

\* len(text) for a normalised text: the letters, the periods and the single
\* spaces between the words.
CharLen(text) ==
    IF text = <<>> THEN 0
    ELSE SumOver(WordsOf(text), [w \in WordsOf(text) |-> Count(text, w) * WordLen(w)])
         + (Len(text) - 1)

\* The last n elements of a sequence (s[-n:] for n > 0).
LastN(s, n) == IF Len(s) > n THEN SubSeq(s, Len(s) - n + 1, Len(s)) ELSE s

----------------------------------------------------------------------------
(* The history store: load_history, save_to_history, get_history, clear_history *)

NoFile == [exists |-> FALSE, ok |-> TRUE, data |-> <<>>]
FileOf(history) == [exists |-> TRUE, ok |-> TRUE, data |-> history]
\* A file that json.load rejects: truncated by open(.., 'w') and not yet
\* rewritten, or holding the left-over bytes of two overlapping writes.
Unparsable == [exists |-> TRUE, ok |-> FALSE, data |-> <<>>]

\* load_history: the parsed file, or [] when there is none. Defined for a file
\* json.load accepts.
load_history(file) == IF file.exists THEN file.data ELSE <<>>

\* original_text[:200] + "..." if len(original_text) > 200 else original_text
\* A text of more than 100 words has more than 200 characters, each word
\* having one at least and a space before it; its length is not counted.
Preview(original_text) ==
    IF 2 * Len(original_text) - 1 > PreviewChars
    THEN [chars |-> PreviewChars, ellipsis |-> TRUE, words |-> <<>>]
    ELSE LET chars == CharLen(original_text)
         IN IF chars > PreviewChars
            THEN [chars |-> PreviewChars, ellipsis |-> TRUE, words |-> <<>>]
            ELSE [chars |-> chars, ellipsis |-> FALSE, words |-> original_text]

\* The entry dict built by save_to_history.
Entry(history, original_text, summary, entities, word_count, timestamp) ==
    [id |-> Len(history) + 1,
     timestamp |-> timestamp,
     original_word_count |-> word_count,
     original_text |-> Preview(original_text),
     summary |-> summary,
     entities |-> entities,
     summary_word_count |-> Len(summary)]

\* Mutants of KeepLast: no truncation; and keeping the first 50, not the last.
KeepAll(history) == history
KeepFirst(history) ==
    IF Len(history) > HistoryCap THEN SubSeq(history, 1, HistoryCap) ELSE history

\* if len(history) > 50: history = history[-50:]
KeepLast(history) ==
    IF Len(history) > HistoryCap
    THEN SubSeq(history, Len(history) - HistoryCap + 1, Len(history))
    ELSE history

\* The list save_to_history writes, given the list it loaded.
Updated(history, original_text, summary, entities, word_count, timestamp) ==
    KeepLast(Append(history,
        Entry(history, original_text, summary, entities, word_count, timestamp)))

\* The arguments of the direct save_to_history calls of SpecHist: one request's
\* worth of values; the time stamp tells the entries apart.
SampleText == Tuple([i \in 1..60 |-> IF i % 6 = 0 THEN WD("data") ELSE W("the")])
SampleSummary == Tuple([i \in 1..12 |-> IF i = 12 THEN WD("data") ELSE W("the")])
SampleEntities == <<>>

\* save_to_history, run to completion.
SaveToHistory ==
    /\ now < MaxClock
    /\ history_file.ok
    /\ LET history == load_history(history_file)
           new == Updated(history, SampleText, SampleSummary, SampleEntities,
                          Len(SampleText), now)
       IN /\ history_file' = FileOf(new)
          /\ saved' = Append(saved, new[Len(new)])
    /\ now' = now + 1
    /\ response' = [route |-> "save"]
    /\ UNCHANGED <<request, TRANSFORMER_AVAILABLE, SPACY_AVAILABLE, pc, loaded, gs, ents>>

\* GET /history: the last 10 entries.
GetHistory ==
    /\ history_file.ok
    /\ response' = [route |-> "history",
                    body |-> LastN(load_history(history_file), HistoryPage)]
    /\ UNCHANGED <<request, TRANSFORMER_AVAILABLE, SPACY_AVAILABLE, history_file, now, saved,
                   pc, loaded, gs, ents>>

\* POST /clear-history: remove the file if there is one.
ClearHistory ==
    /\ history_file' = NoFile
    /\ saved' = <<>>
    /\ response' = [route |-> "clear-history", success |-> TRUE]
    /\ UNCHANGED <<request, TRANSFORMER_AVAILABLE, SPACY_AVAILABLE, now, pc, loaded, gs, ents>>

Workers == 1..NumWorkers

InitCommon ==
    /\ TRANSFORMER_AVAILABLE \in BOOLEAN
    /\ SPACY_AVAILABLE \in BOOLEAN
    /\ saved = <<>>
    /\ pc = [w \in Workers |-> "idle"]
    /\ loaded = [w \in Workers |-> <<>>]
    /\ gs = [called |-> FALSE]
    /\ ents = [called |-> FALSE]
    /\ response = [route |-> "none"]
    /\ request = [present |-> FALSE]

InitHist ==
    /\ InitCommon
    /\ history_file = NoFile
    /\ now = 1

NextHist == SaveToHistory \/ GetHistory \/ ClearHistory

\* The history store used by one request at a time.
SpecHist == InitHist /\ [][NextHist]_vars

\* C2: the store holds at most 50 entries, and they are the most recently saved
\* ones in the order they were saved (the oldest is dropped first); after
\* clear_history, load_history and get_history return an empty list.
C2_KeepsMostRecent50 ==
    /\ history_file.ok
    /\ Len(load_history(history_file)) <= HistoryCap
    /\ load_history(history_file) = LastN(saved, HistoryCap)
    /\ response.route = "clear-history" => load_history(history_file) = <<>>
    /\ response.route = "history" => response.body = LastN(saved, HistoryPage)

\* More than 50 saves have been made since the last clear, and the page was read.
C2_Witness ==
    /\ Len(saved) > HistoryCap
    /\ Len(load_history(history_file)) = HistoryCap
    /\ response.route = "history"

\* C3: the stored entries carry ids increasing by 1 in store order (so no two
\* stored entries share an id), also after the cap has dropped old entries.
C3_SequentialIds ==
    LET h == load_history(history_file)
    IN \A i \in 1..(Len(h) - 1) : h[i + 1].id = h[i].id + 1

----------------------------------------------------------------------------
(* save_to_history called by concurrent requests (Flask serves each request  *)
(* on its own thread).  The call is cut at its accesses to the file: the     *)
(* read (line 55), open(.., 'w') truncating the file (line 71), and the      *)
(* write and close (line 72).  Two calls that both have the file open write  *)
(* from offset 0 over each other: the file ends as the later writer's list   *)
(* or, when the later text is the shorter one, as bytes json.load rejects.   *)

\* The list stored after n <= 50 calls made one after the other, before time 0:
\* the i-th call found i - 1 entries.
Preloaded(n) ==
    Tuple([i \in 1..n |->
              Entry([j \in 1..(i - 1) |-> j], SampleText, SampleSummary,
                    SampleEntities, Len(SampleText), i - HistoryCap)])

\* Lines 55-69: read the file, build the entry, append, truncate the list.
ConcLoad(w) ==
    /\ pc[w] = "idle"
    /\ now < MaxConcSaves
    /\ history_file.ok
    /\ loaded' = [loaded EXCEPT ![w] =
           Updated(load_history(history_file), SampleText, SampleSummary,
                   SampleEntities, Len(SampleText), now)]
    /\ pc' = [pc EXCEPT ![w] = "loaded"]
    /\ now' = now + 1
    /\ UNCHANGED <<request, TRANSFORMER_AVAILABLE, SPACY_AVAILABLE, history_file, saved,
                   gs, ents, response>>

\* Line 51: json.load raises on a file another call is rewriting; the call ends.
ConcLoadRaises(w) ==
    /\ pc[w] = "idle"
    /\ now < MaxConcSaves
    /\ ~history_file.ok
    /\ now' = now + 1
    /\ response' = [route |-> "save", raised |-> TRUE]
    /\ UNCHANGED <<request, TRANSFORMER_AVAILABLE, SPACY_AVAILABLE, history_file, saved,
                   pc, loaded, gs, ents>>

\* Line 71: open(HISTORY_FILE, 'w') empties the file; bytes another call wrote
\* are gone, so a call that had been written over is no longer.
ConcOpen(w) ==
    /\ pc[w] = "loaded"
    /\ history_file' = Unparsable
    /\ pc' = [v \in Workers |->
                 IF v = w THEN "opened"
                 ELSE IF pc[v] = "overlapped" THEN "opened" ELSE pc[v]]
    /\ UNCHANGED <<request, TRANSFORMER_AVAILABLE, SPACY_AVAILABLE, now, saved, loaded,
                   gs, ents, response>>

\* Line 72: json.dump and close.
ConcDump(w) ==
    /\ pc[w] \in {"opened", "overlapped"}
    /\ \/ history_file' = FileOf(loaded[w])
       \/ /\ pc[w] = "overlapped"
          /\ history_file' = Unparsable
    /\ saved' = Append(saved, loaded[w][Len(loaded[w])])
    /\ pc' = [v \in Workers |->
                 IF v = w THEN "idle"
                 ELSE IF pc[v] = "opened" THEN "overlapped" ELSE pc[v]]
    /\ UNCHANGED <<request, TRANSFORMER_AVAILABLE, SPACY_AVAILABLE, now, loaded,
                   gs, ents, response>>

\* The store is empty, or holds the 49 entries of 49 earlier calls.
InitConc ==
    /\ TRANSFORMER_AVAILABLE = FALSE
    /\ SPACY_AVAILABLE = FALSE
    /\ \E n \in {0, HistoryCap - 1} :
          /\ saved = Preloaded(n)
          /\ history_file = IF n = 0 THEN NoFile ELSE FileOf(Preloaded(n))
    /\ pc = [w \in Workers |-> "idle"]
    /\ loaded = [w \in Workers |-> <<>>]
    /\ gs = [called |-> FALSE]
    /\ ents = [called |-> FALSE]
    /\ response = [route |-> "none"]
    /\ request = [present |-> FALSE]
    /\ now = 0

NextConc ==
    \E w \in Workers :
        ConcLoad(w) \/ ConcLoadRaises(w) \/ ConcOpen(w) \/ ConcDump(w)

SpecConc == InitConc /\ [][NextConc]_vars

\* An entry whose save completed is missing from the store although fewer than
\* 50 saves completed after it.
LostUpdate ==
    \E i \in DOMAIN saved :
        /\ Len(saved) - i < HistoryCap
        /\ \A j \in DOMAIN history_file.data : history_file.data[j] # saved[i]

DuplicateIds ==
    \E i, j \in DOMAIN history_file.data :
        i < j /\ history_file.data[i].id = history_file.data[j].id

\* C9: concurrent save_to_history calls can lose an update and can leave two
\* stored entries with the same id; in every interleaving the stored list has
\* at most 50 entries.
C9_ConcurrentAtMost50 ==
    /\ Len(history_file.data) <= HistoryCap
    /\ \A w \in Workers : Len(loaded[w]) <= HistoryCap

\* All calls have returned; one entry was lost and two stored entries share an id.
C9_Witness ==
    /\ \A w \in Workers : pc[w] = "idle"
    /\ history_file.exists /\ history_file.ok
    /\ LostUpdate
    /\ DuplicateIds

----------------------------------------------------------------------------
(* extract_entities *)

DateLimit == 5
MoneyLimit == 5
NameLimit == 10
EntityLimit == 20
ShortName == 3

\* s[:n]
FirstN(s, n) == IF Len(s) > n THEN SubSeq(s, 1, n) ELSE s

\* The elements of a finite set of integers, in increasing order.
Ordered(S) ==
    Tuple([k \in 1..Cardinality(S) |->
              CHOOSE x \in S : Cardinality({y \in S : y < x}) = k - 1])

\* What the three patterns see of a word of the vocabulary.
Kind(s) ==
    CASE s = "12/05/2024" -> "date"
      [] s = "$500" -> "money"
      [] s = "5" -> "number"
      [] s = "million" -> "unit"
      [] s \in {"Alice", "Bob", "Text", "The", "Please", "Error"} -> "cap"
      [] OTHER -> "lower"

\* The digits a word ends with, which \b\d+ can match on their own.
TrailingDigits(s) == IF s = "12/05/2024" THEN "2024" ELSE s

\* re.findall(date_pattern, text): every date word, its period left out.
DateMatches(text) ==
    LET at == Ordered({i \in DOMAIN text : Kind(text[i].s) = "date"})
    IN Tuple([k \in DOMAIN at |-> <<text[at[k]].s>>])

\* The second alternative of money_pattern at word i: digits, optional blanks,
\* then a unit. A period after the digits is in the way.
AmountAt(text, i) ==
    /\ Kind(text[i].s) \in {"number", "date"}
    /\ ~text[i].dot
    /\ i < Len(text)
    /\ Kind(text[i + 1].s) = "unit"

\* re.findall(money_pattern, text, re.IGNORECASE)
MoneyMatches(text) ==
    LET at == Ordered({i \in DOMAIN text :
                          Kind(text[i].s) = "money" \/ AmountAt(text, i)})
    IN Tuple([k \in DOMAIN at |->
                 IF Kind(text[at[k]].s) = "money" THEN <<text[at[k]].s>>
                 ELSE <<TrailingDigits(text[at[k]].s), text[at[k] + 1].s>>])

\* Word i starts a match of name_pattern: a capitalised word that does not
\* continue the run of the word before it.
NameStart(text, i) ==
    /\ Kind(text[i].s) = "cap"
    /\ i = 1 \/ Kind(text[i - 1].s) # "cap" \/ text[i - 1].dot

\* The last word of the run of capitalised words starting at i: the run goes
\* on over single blanks and stops at a period.
NameEnd(text, i) ==
    CHOOSE j \in i..Len(text) :
        /\ \A k \in i..j : Kind(text[k].s) = "cap"
        /\ \A k \in i..(j - 1) : ~text[k].dot
        /\ j = Len(text) \/ Kind(text[j + 1].s) # "cap" \/ text[j].dot

\* re.findall(name_pattern, text)
NameMatches(text) ==
    LET at == Ordered({i \in DOMAIN text : NameStart(text, i)})
        letters == Tuple([i \in DOMAIN text |-> text[i].s])
    IN Tuple([k \in DOMAIN at |-> SubSeq(letters, at[k], NameEnd(text, at[k]))])

\* len() of a match: its words and the single blanks between them.
MatchLen(m) == SumOver(DOMAIN m, [i \in DOMAIN m |-> Letters(m[i])]) + (Len(m) - 1)

Labelled(matches, label) ==
    Tuple([k \in DOMAIN matches |-> [text |-> matches[k], label |-> label]])

LongerThanShort(m) == MatchLen(m) > ShortName

\* Mutant of TakeDates: every date is kept.
TakeAllDates(dates) == dates

\* dates[:5]
TakeDates(dates) == FirstN(dates, DateLimit)

\* Mutant of TakeNames: the length filter is applied before the first 10 are taken.
TakeNamesFilterFirst(names) == FirstN(SelectSeq(names, LongerThanShort), NameLimit)

\* for name in names[:10]: if len(name) > 3
TakeNames(names) == SelectSeq(FirstN(names, NameLimit), LongerThanShort)

\* Lines 83-105: the pattern-matching fallback.
RegexEntities(text) ==
    FirstN(Labelled(TakeDates(DateMatches(text)), "DATE")
           \o Labelled(FirstN(MoneyMatches(text), MoneyLimit), "MONEY")
           \o Labelled(TakeNames(NameMatches(text)), "PERSON/ORG"),
           EntityLimit)

\* Lines 107-114: the entities of the spaCy document, each text once, texts of
\* at most one character (blanks stripped) left out, at most 20.
SpacyEntities(doc) ==
    LET kept == Ordered({i \in DOMAIN doc :
                    /\ doc[i].stripped > 1
                    /\ \A j \in 1..(i - 1) : doc[j].text # doc[i].text})
    IN FirstN(Tuple([k \in DOMAIN kept |-> [text |-> doc[kept[k]].text,
                                            label |-> doc[kept[k]].label]]),
              EntityLimit)

\* extract_entities(text). nlp is what the spaCy pipeline does on this text:
\* it raises, or yields the entities doc.ents.
extract_entities(text, spacy_available, nlp) ==
    IF ~spacy_available THEN [raised |-> FALSE, value |-> RegexEntities(text)]
    ELSE IF nlp.raises THEN [raised |-> TRUE, value |-> <<>>]
    ELSE [raised |-> FALSE, value |-> SpacyEntities(nlp.ents)]

\* Behaviours of the spaCy pipeline.
NlpOutcomes ==
    {[raises |-> TRUE, ents |-> <<>>],
     [raises |-> FALSE, ents |-> <<>>],
     [raises |-> FALSE,
      ents |-> <<[text |-> <<"Alice">>, label |-> "PERSON", stripped |-> 5],
                 [text |-> <<"a">>, label |-> "ORG", stripped |-> 1],
                 [text |-> <<"Alice">>, label |-> "ORG", stripped |-> 5],
                 [text |-> <<"12/05/2024">>, label |-> "DATE", stripped |-> 10]>>]}

\* Input texts for the extractor: segments of three words each.
MaxDates == 7
MaxMoney == 7
MaxNames == 12

Segment(kind) ==
    CASE kind = "D" -> <<W("12/05/2024"), W("of"), W("the")>>
      [] kind = "E" -> <<WD("12/05/2024"), W("of"), W("the")>>
      [] kind = "M" -> <<W("$500"), W("million"), W("the")>>
      [] kind = "U" -> <<W("5"), W("million"), W("of")>>
      [] kind = "Q" -> <<W("12/05/2024"), WD("million"), W("of")>>
      [] kind = "V" -> <<WD("5"), W("million"), W("of")>>
      [] kind = "N" -> <<W("Alice"), W("of"), W("the")>>
      [] kind = "S" -> <<W("Bob"), W("of"), W("the")>>
      [] kind = "J" -> <<W("Alice"), W("Bob"), W("of")>>
      [] kind = "P" -> <<WD("Alice"), W("Bob"), W("of")>>
      [] OTHER -> <<W("the"), W("data"), W("of")>>

DateKinds == <<"D", "E">>
MoneyKinds == <<"M", "U", "Q", "V">>
NameKinds == <<"N", "S", "J", "P">>

Cycle(kinds, k) == kinds[(k % Len(kinds)) + 1]

\* nn name segments, nm money segments and nd date segments, in the order
\* given by layout, the k-th segment of a group of the kind Cycle gives it.
Plan(nd, nm, nn, layout, shift) ==
    LET names == Tuple([k \in 1..nn |-> Cycle(NameKinds, k + shift)])
        money == Tuple([k \in 1..nm |-> Cycle(MoneyKinds, k + shift)])
        dates == Tuple([k \in 1..nd |-> Cycle(DateKinds, k + shift)])
    IN IF layout = "NMD" THEN names \o money \o dates ELSE dates \o names \o money

TextOfPlan(plan) ==
    Tuple([i \in 1..(3 * Len(plan)) |->
              Segment(plan[((i - 1) \div 3) + 1])[((i - 1) % 3) + 1]])

EntityTexts ==
    {TextOfPlan(Plan(nd, nm, nn, layout, shift)) :
        nd \in 0..MaxDates, nm \in 0..MaxMoney, nn \in 0..MaxNames,
        layout \in {"NMD", "DNM"}, shift \in 0..3}

\* One call of extract_entities on the text drawn at the start.
CallExtractEntities ==
    /\ ~ents.called
    /\ ents' = [called |-> TRUE, text |-> ents.text, nlp |-> ents.nlp,
                result |-> extract_entities(ents.text, SPACY_AVAILABLE, ents.nlp)]
    /\ UNCHANGED <<request, TRANSFORMER_AVAILABLE, SPACY_AVAILABLE, history_file, now, saved,
                   pc, loaded, gs, response>>

InitEnt ==
    /\ TRANSFORMER_AVAILABLE = FALSE
    /\ SPACY_AVAILABLE \in BOOLEAN
    /\ history_file = NoFile
    /\ now = 1
    /\ saved = <<>>
    /\ pc = [w \in Workers |-> "idle"]
    /\ loaded = [w \in Workers |-> <<>>]
    /\ gs = [called |-> FALSE]
    /\ \E text \in EntityTexts, nlp \in NlpOutcomes :
          /\ SPACY_AVAILABLE \/ nlp = [raises |-> FALSE, ents |-> <<>>]
          /\ ents = [called |-> FALSE, text |-> text, nlp |-> nlp]
    /\ response = [route |-> "none"]
    /\ request = [present |-> FALSE]

\* extract_entities applied to the input texts, with and without spaCy.
SpecEnt == InitEnt /\ [][CallExtractEntities]_vars

\* The entities of r carrying label.
WithLabel(r, label) == SelectSeq(r, LAMBDA e : e.label = label)
TextsOf(r) == Tuple([k \in DOMAIN r |-> r[k].text])

\* C8: the pattern-matching extractor returns at most 20 entities, at most 5 DATE,
\* at most 5 MONEY and at most 10 PERSON/ORG; only the first 10 capitalised
\* matches are considered and those of at most 3 characters are dropped; the DATE
\* entities come first, then the MONEY ones, then the PERSON/ORG ones, each
\* group in match order.
C8_EntityCaps ==
    (ents.called /\ ~SPACY_AVAILABLE) =>
        LET r == ents.result.value
            names == NameMatches(ents.text)
            considered == {k \in DOMAIN names : k <= NameLimit /\ MatchLen(names[k]) > ShortName}
        IN /\ ~ents.result.raised
           /\ Len(r) <= EntityLimit
           /\ Len(WithLabel(r, "DATE")) <= DateLimit
           /\ Len(WithLabel(r, "MONEY")) <= MoneyLimit
           /\ Len(WithLabel(r, "PERSON/ORG")) <= NameLimit
           /\ \A i, j \in DOMAIN r :
                 i < j => /\ r[j].label = "DATE" => r[i].label = "DATE"
                          /\ r[j].label = "MONEY" => r[i].label \in {"DATE", "MONEY"}
           /\ \A i \in DOMAIN r : r[i].label \in {"DATE", "MONEY", "PERSON/ORG"}
           /\ TextsOf(WithLabel(r, "DATE")) = FirstN(DateMatches(ents.text), DateLimit)
           /\ TextsOf(WithLabel(r, "MONEY")) = FirstN(MoneyMatches(ents.text), MoneyLimit)
           /\ TextsOf(WithLabel(r, "PERSON/ORG")) =
                 Tuple([k \in 1..Cardinality(considered) |-> names[Ordered(considered)[k]]])

\* A text with more than 5 dates, more than 5 amounts and more than 10
\* capitalised matches, a short one among the first 10 and a long one after them.
C8_Witness ==
    /\ ents.called /\ ~SPACY_AVAILABLE
    /\ Len(DateMatches(ents.text)) > DateLimit
    /\ Len(MoneyMatches(ents.text)) > MoneyLimit
    /\ Len(NameMatches(ents.text)) > NameLimit
    /\ \E k \in 1..NameLimit : MatchLen(NameMatches(ents.text)[k]) <= ShortName
    /\ \E k \in DOMAIN NameMatches(ents.text) :
          k > NameLimit /\ MatchLen(NameMatches(ents.text)[k]) > ShortName
    /\ Len(ents.result.value) < EntityLimit
    /\ ents.result.value[1].label = "DATE"

----------------------------------------------------------------------------
(* generate_summary *)

ShortInput == 50
LongInput == 1000
chunk_size == 800
ChunkMaxLength == 100
ChunkMinLength == 20
DefaultMaxWords == 150
DefaultMinWords == 30
FewSentences == 3
MinTarget == 2
MaxTarget == 5
BonusFrom == 10
BonusTo == 30
FreqWordLen == 3

Min(a, b) == IF a < b THEN a ELSE b
Max(a, b) == IF a > b THEN a ELSE b

\* "Text too short for meaningful summarization. Please provide at least 50 words."
Advisory ==
    <<W("Text"), W("too"), W("short"), W("for"), W("meaningful"),
      WD("summarization"), W("Please"), W("provide"), W("at"), W("least"),
      W("50"), WD("words")>>

\* f"Error generating summary: {str(e)}"
ErrorString(reason) == <<W("Error"), W("generating"), W("summary:")>> \o reason

RECURSIVE JoinAll(_)
\* ' '.join(texts) of a few texts, as words.
JoinAll(texts) ==
    IF texts = <<>> THEN <<>> ELSE texts[1] \o JoinAll(Tail(texts))

\* int(n * 0.3) and int(n * 0.4): the float product truncated, which for the
\* word counts of the model is the integer quotient.
Times03(n) == (3 * n) \div 10
Times04(n) == (4 * n) \div 10

\* The summarization pipeline (facebook/bart-large-cnn) is not part of the
\* program. A call either raises, or returns a text of some number of words
\* (min_length >= 20 tokens, so never an empty one); here the words are taken
\* from the input in turn.
Generated(input, n) == Tuple([i \in 1..n |-> input[((i - 1) % Len(input)) + 1]])

\* The k-th call of summarizer(...) in a run, as decided by model[k].
ModelCall(model, k, input, max_length, min_length) ==
    [text |-> input, max_length |-> max_length, min_length |-> min_length,
     raises |-> model[k].raises,
     reason |-> model[k].reason,
     summary |-> IF model[k].raises THEN <<>> ELSE Generated(input, model[k].words)]

\* Mutant of Chunks: the slices overlap by one word.
OverlappingChunks(words) ==
    LET starts == Ordered({i \in 0..(Len(words) - 1) : i % (chunk_size - 1) = 0})
    IN Tuple([k \in DOMAIN starts |->
                 SubSeq(words, starts[k] + 1, Min(starts[k] + chunk_size, Len(words)))])

\* [words[i:i+chunk_size] for i in range(0, len(words), chunk_size)]
Chunks(words) ==
    LET starts == Ordered({i \in 0..(Len(words) - 1) : i % chunk_size = 0})
    IN Tuple([k \in DOMAIN starts |->
                 SubSeq(words, starts[k] + 1, Min(starts[k] + chunk_size, Len(words)))])

NotRaised(call) == ~call.raises

\* Lines 125-149: the chunked path. The loop calls the summarizer on the chunks
\* in turn and skips the calls that raise; the call on the combined text is
\* outside any try.
ChunkedSummary(text, max_words, min_words, model) ==
    LET chunks == Chunks(text)
        loop == Tuple([k \in DOMAIN chunks |->
                          ModelCall(model, k, chunks[k],
                                    Min(ChunkMaxLength, Times03(Len(chunks[k]))),
                                    ChunkMinLength)])
        done == SelectSeq(loop, NotRaised)
        combined == JoinAll(Tuple([k \in DOMAIN done |-> done[k].summary]))
        again == ModelCall(model, Len(chunks) + 1, combined, max_words, min_words)
    IN IF Len(combined) > max_words
       THEN [raised |-> again.raises,
             value |-> again.summary,
             path |-> "chunked", calls |-> Append(loop, again),
             chunks |-> chunks, combined |-> combined,
             sentences |-> <<>>, scores |-> <<>>, top |-> <<>>]
       ELSE [raised |-> FALSE,
             value |-> combined,
             path |-> "chunked", calls |-> loop,
             chunks |-> chunks, combined |-> combined,
             sentences |-> <<>>, scores |-> <<>>, top |-> <<>>]

\* Lines 152-160: one call on the whole text; a raise becomes an error string.
SinglePassSummary(text, max_words, min_words, model) ==
    LET max_len == Min(max_words, Max(min_words, Times04(Len(text))))
        call == ModelCall(model, 1, text, max_len, min_words)
    IN [raised |-> FALSE,
        value |-> IF call.raises THEN ErrorString(call.reason) ELSE call.summary,
        path |-> "single", calls |-> <<call>>,
        chunks |-> <<>>, combined |-> <<>>,
        sentences |-> <<>>, scores |-> <<>>, top |-> <<>>]

\* The pieces of text between the cuts, a cut being a word whose period and
\* following blank are the separator.
SplitAfter(text, cuts) ==
    LET first(k) == IF k = 1 THEN 1 ELSE cuts[k - 1] + 1
    IN Tuple([k \in 1..(Len(cuts) + 1) |->
                 IF k <= Len(cuts)
                 THEN SubSeq(text, first(k), cuts[k] - 1) \o <<W(text[cuts[k]].s)>>
                 ELSE SubSeq(text, first(k), Len(text))])

\* text.split('. '): the text is cut after every word that ends with a period
\* and is followed by another word; the period goes with the separator.
Sentences(text) ==
    SplitAfter(text, Ordered({i \in 1..(Len(text) - 1) : text[i].dot}))

\* text.lower().split()
LowerWords(text) ==
    Tuple([i \in DOMAIN text |-> [s |-> Lower(text[i].s), dot |-> text[i].dot]])

\* Lines 169-173: word_freq, the number of occurrences of every lower-cased
\* word of more than 3 characters.
WordFreq(text) ==
    LET words == LowerWords(text)
        counted == {w \in WordsOf(words) : WordLen(w) > FreqWordLen}
    IN [w \in counted |-> Count(words, w)]

\* Lines 176-192, times 10 * N to stay in the integers: the position share
\* (N - i) / N * 0.3, the frequencies of the sentence's words, and 0.2 for a
\* sentence of 10 to 30 words. i counts from 0.
Score(word_freq, sentences, i) ==
    LET N == Len(sentences)
        sentence_words == LowerWords(sentences[i + 1])
        known == WordsOf(sentence_words) \cap DOMAIN word_freq
        frequency == SumOver(known,
                        [w \in known |-> Count(sentence_words, w) * word_freq[w]])
        length == Len(sentence_words)
    IN 3 * (N - i)
       + 10 * N * frequency
       + (IF BonusFrom <= length /\ length <= BonusTo THEN 2 * N ELSE 0)

\* Mutant of Target: the product rounded to the nearest integer (round()).
RoundTimes03(n) ==
    LET q == (3 * n) \div 10
        r == (3 * n) % 10
    IN IF r > 5 THEN q + 1
       ELSE IF r < 5 THEN q
       ELSE IF q % 2 = 0 THEN q ELSE q + 1
RoundedTarget(N) == Max(MinTarget, Min(MaxTarget, RoundTimes03(N)))

\* max(2, min(5, int(len(sentences) * 0.3)))
Target(N) == Max(MinTarget, Min(MaxTarget, Times03(N)))

\* Ranks(scores)[i + 1] is the position, from 0, of key i in
\* sorted(scores.keys(), key=scores.get, reverse=True): the sort is stable, so
\* of two sentences with equal scores the earlier one comes first.
Ranks(scores) ==
    Tuple([k \in DOMAIN scores |->
              Cardinality({j \in DOMAIN scores :
                  \/ scores[j] > scores[k]
                  \/ scores[j] = scores[k] /\ j < k})])

\* Mutant of TopSentences: the selected indices are left in ranking order.
TopSentencesUnsorted(scores, target) ==
    LET rank == Ranks(scores)
    IN Tuple([p \in 1..Min(target, Len(scores)) |->
                 (CHOOSE k \in DOMAIN rank : rank[k] = p - 1) - 1])

\* [:target_sentences] of the ranking, then top_sentences.sort()
TopSentences(scores, target) ==
    LET rank == Ranks(scores)
    IN Ordered({k - 1 : k \in {j \in DOMAIN rank : rank[j] < target}})

RECURSIVE JoinSentences(_)
\* '. '.join(parts): a period and a blank between two parts.
JoinSentences(parts) ==
    IF Len(parts) <= 1 THEN (IF parts = <<>> THEN <<>> ELSE parts[1])
    ELSE LET head == parts[1]
         IN SubSeq(head, 1, Len(head) - 1)
            \o <<[s |-> head[Len(head)].s, dot |-> TRUE]>>
            \o JoinSentences(Tail(parts))

\* if not summary.endswith('.'): summary += '.'
EnsurePeriod(summary) ==
    IF summary[Len(summary)].dot THEN summary
    ELSE SubSeq(summary, 1, Len(summary) - 1)
         \o <<[s |-> summary[Len(summary)].s, dot |-> TRUE]>>

\* Lines 163-203: the extractive fallback.
ExtractiveSummary(text) ==
    LET sentences == Sentences(text)
        N == Len(sentences)
        word_freq == WordFreq(text)
        scores == Tuple([k \in 1..N |-> Score(word_freq, sentences, k - 1)])
        top == TopSentences(scores, Target(N))
    IN IF N <= FewSentences
       THEN [raised |-> FALSE, value |-> text, path |-> "verbatim", calls |-> <<>>,
             chunks |-> <<>>, combined |-> <<>>,
             sentences |-> sentences, scores |-> <<>>, top |-> <<>>]
       ELSE [raised |-> FALSE,
             value |-> EnsurePeriod(JoinSentences(
                          Tuple([k \in DOMAIN top |-> sentences[top[k] + 1]]))),
             path |-> "extractive", calls |-> <<>>,
             chunks |-> <<>>, combined |-> <<>>,
             sentences |-> sentences, scores |-> scores, top |-> top]

\* Mutant of UsesModel: the chunking branch is taken whatever the strategy.
UsesModelAlways(transformer_available) == TRUE

\* Line 123: if TRANSFORMER_AVAILABLE
UsesModel(transformer_available) == transformer_available

\* generate_summary(text, max_words, min_words). model decides what each call of
\* the summarization pipeline does. The result records, next to the returned
\* value (or the exception raised), the branch taken and the calls made.
generate_summary(text, max_words, min_words, transformer_available, model) ==
    IF Len(text) < ShortInput
    THEN [raised |-> FALSE, value |-> Advisory, path |-> "advisory", calls |-> <<>>,
          chunks |-> <<>>, combined |-> <<>>,
          sentences |-> <<>>, scores |-> <<>>, top |-> <<>>]
    ELSE IF UsesModel(transformer_available)
    THEN IF Len(text) > LongInput
         THEN ChunkedSummary(text, max_words, min_words, model)
         ELSE SinglePassSummary(text, max_words, min_words, model)
    ELSE ExtractiveSummary(text)

----------------------------------------------------------------------------
(* Inputs of generate_summary *)

MaxSentences == 18
MaxHuge == 6

\* The words of the sentences the input texts are made of: a short one (8
\* words), a medium one (12), a long one (35) and a huge one (300).
SentenceWords(kind) ==
    CASE kind = "S" -> <<W("The"), W("data"), W("of"), W("a"), W("the"), W("model"),
                         W("a"), W("of")>>
      [] kind = "M" -> <<W("the"), W("result"), W("of"), W("the"), W("model"),
                         W("data"), W("a"), W("result"), W("of"), W("the"),
                         W("result"), W("a")>>
      [] kind = "L" -> Tuple([i \in 1..35 |-> IF i % 7 = 0 THEN W("data") ELSE W("the")])
      [] OTHER -> Tuple([i \in 1..300 |-> IF i % 50 = 0 THEN W("model") ELSE W("word")])

RECURSIVE Build(_)
\* The sentences of the given kinds, each closed by a period.
Build(kinds) ==
    IF kinds = <<>> THEN <<>>
    ELSE EnsurePeriod(SentenceWords(kinds[1])) \o Build(Tail(kinds))

\* The same text without its final period.
Unclosed(text) ==
    SubSeq(text, 1, Len(text) - 1) \o <<W(text[Len(text)].s)>>

\* N sentences: medium ones at the places in hot, a long one first when long,
\* short ones elsewhere.
SentenceKinds(N, hot, long) ==
    Tuple([k \in 1..N |-> IF k = 1 /\ long THEN "L" ELSE IF k \in hot THEN "M" ELSE "S"])

SentenceTexts ==
    LET closed == {Build(SentenceKinds(N, {a, b} \ {0}, long)) :
                      N \in 1..MaxSentences, a \in 0..MaxSentences,
                      b \in 0..MaxSentences, long \in BOOLEAN}
    IN closed \cup {Unclosed(t) : t \in closed}

HugeTexts == {Build(Tuple([k \in 1..n |-> "H"])) : n \in 1..MaxHuge}

\* Texts of one sentence with word counts at the thresholds of the program.
ThresholdTexts ==
    {Tuple([i \in 1..n |-> W("word")]) :
        n \in {ShortInput - 1, ShortInput, LongInput, LongInput + 1,
               2 * chunk_size, 2 * chunk_size + 1, 2 * chunk_size + 100}}

SummaryTexts == SentenceTexts \cup HugeTexts \cup ThresholdTexts

MaxWordsChoices == {ChunkMaxLength, DefaultMaxWords}

Raises == [raises |-> TRUE, reason |-> <<W("timeout")>>, words |-> 0]
Returns(n) == [raises |-> FALSE, reason |-> <<>>, words |-> n]
ModelOutcomes == {Raises, Returns(ChunkMinLength), Returns(ChunkMaxLength)}

\* The most calls of the pipeline one generate_summary makes on an input text,
\* and the number it makes on text.
MostCalls == (Max(300 * MaxHuge, 2 * chunk_size + 100) \div chunk_size) + 2
CallsOn(text, transformer_available) ==
    IF ~transformer_available \/ Len(text) < ShortInput THEN 0
    ELSE IF Len(text) <= LongInput THEN 1
    ELSE Len(Chunks(text)) + 1

\* The behaviours of the pipeline over the calls made on text.
ModelsFor(text, transformer_available) ==
    LET n == CallsOn(text, transformer_available)
    IN {Tuple([k \in 1..MostCalls |-> IF k <= n THEN m[k] ELSE Raises]) :
           m \in [1..n -> ModelOutcomes]}

CallGenerateSummary ==
    /\ ~gs.called
    /\ gs' = [called |-> TRUE, text |-> gs.text, max_words |-> gs.max_words,
              model |-> gs.model,
              out |-> generate_summary(gs.text, gs.max_words, DefaultMinWords,
                                       TRANSFORMER_AVAILABLE, gs.model)]
    /\ UNCHANGED <<request, TRANSFORMER_AVAILABLE, SPACY_AVAILABLE, history_file, now, saved,
                   pc, loaded, ents, response>>

InitGen ==
    /\ TRANSFORMER_AVAILABLE \in BOOLEAN
    /\ SPACY_AVAILABLE = FALSE
    /\ history_file = NoFile
    /\ now = 1
    /\ saved = <<>>
    /\ pc = [w \in Workers |-> "idle"]
    /\ loaded = [w \in Workers |-> <<>>]
    /\ \E text \in SummaryTexts, max_words \in MaxWordsChoices :
          \E model \in ModelsFor(text, TRANSFORMER_AVAILABLE) :
             gs = [called |-> FALSE, text |-> text, max_words |-> max_words,
                   model |-> model]
    /\ ents = [called |-> FALSE]
    /\ response = [route |-> "none"]
    /\ request = [present |-> FALSE]

\* generate_summary applied to the input texts, under either strategy.
SpecGen == InitGen /\ [][CallGenerateSummary]_vars

\* The letters of the words of a text, periods left out.
Stems(text) == Tuple([i \in DOMAIN text |-> text[i].s])

\* Number of ". " separators of a text, plus one.
SentenceCount(text) == Cardinality({i \in 1..(Len(text) - 1) : text[i].dot}) + 1

\* The extractive branch selected `target` sentences: the highest-scoring
\* ones, and the output is made of them in document order.
Selected(out, target) ==
    LET N == Len(out.sentences)
        chosen == {out.top[k] : k \in DOMAIN out.top}
        parts == Sentences(out.value)
    IN /\ Len(out.top) = target
       /\ Cardinality(chosen) = target
       /\ chosen \subseteq 0..(N - 1)
       /\ \A i \in chosen, j \in (0..(N - 1)) \ chosen :
             out.scores[i + 1] >= out.scores[j + 1]
       /\ \A k \in 1..(Len(out.top) - 1) : out.top[k] < out.top[k + 1]
       /\ Len(parts) = target
       /\ \A k \in DOMAIN parts : Stems(parts[k]) = Stems(out.sentences[out.top[k] + 1])
       /\ out.value[Len(out.value)].dot

\* C4 as stated: with N >= 4 sentences the fallback selects exactly
\* clamp(round(N * 0.3), 2, 5) sentences, the highest-scoring ones, and they
\* appear in the output in document order.
C4_SelectsRoundedTarget ==
    (gs.called /\ ~TRANSFORMER_AVAILABLE /\ Len(gs.text) >= ShortInput
        /\ SentenceCount(gs.text) >= 4) =>
        /\ gs.out.path = "extractive"
        /\ Len(gs.out.sentences) = SentenceCount(gs.text)
        /\ Selected(gs.out, RoundedTarget(SentenceCount(gs.text)))

\* C4 amended: with N >= 4 sentences the fallback selects exactly
\* clamp(floor(N * 0.3), 2, 5) sentences, the highest-scoring ones, and they
\* appear in the output in document order.
C4_SelectsTruncatedTarget ==
    (gs.called /\ ~TRANSFORMER_AVAILABLE /\ Len(gs.text) >= ShortInput
        /\ SentenceCount(gs.text) >= 4) =>
        LET N == SentenceCount(gs.text)
            floor == (3 * N) \div 10
        IN /\ gs.out.path = "extractive"
           /\ Len(gs.out.sentences) = N
           /\ Selected(gs.out, IF floor < MinTarget THEN MinTarget
                               ELSE IF floor > MaxTarget THEN MaxTarget ELSE floor)

\* Nine sentences (round gives 3, truncation 2), and the selection is not the
\* first sentences of the text.
C4_Witness ==
    /\ gs.called /\ ~TRANSFORMER_AVAILABLE
    /\ gs.out.path = "extractive"
    /\ Len(gs.out.sentences) = 9
    /\ Len(gs.out.top) = 2
    /\ gs.out.top[1] > 1

\* C5: an input of W > 1000 words is cut into ceil(W / 800) contiguous chunks
\* that do not overlap, all of 800 words but the last; the chunks are
\* summarized in order; the combined text is the summaries of the chunks whose
\* call did not fail, in chunk order; it is summarized once more, with bounds
\* (max_words, min_words), exactly when it has more than max_words words.
C5_ChunkedPath ==
    (gs.called /\ TRANSFORMER_AVAILABLE /\ Len(gs.text) > LongInput) =>
        LET out == gs.out
            n == (Len(gs.text) + chunk_size - 1) \div chunk_size
            ok == {k \in 1..n : ~out.calls[k].raises}
        IN /\ out.path = "chunked"
           /\ Len(out.chunks) = n
           /\ \A k \in 1..(n - 1) : Len(out.chunks[k]) = chunk_size
           /\ Len(out.chunks[n]) = Len(gs.text) - chunk_size * (n - 1)
           /\ \A k \in 1..n :
                 out.chunks[k] = SubSeq(gs.text, chunk_size * (k - 1) + 1,
                                        chunk_size * (k - 1) + Len(out.chunks[k]))
           /\ Len(out.calls) \in {n, n + 1}
           /\ \A k \in 1..n : out.calls[k].text = out.chunks[k]
           /\ Len(out.combined) = SumOver(ok, [k \in ok |-> Len(out.calls[k].summary)])
           /\ \A k \in ok :
                 LET before == {j \in ok : j < k}
                     at == SumOver(before, [j \in before |-> Len(out.calls[j].summary)])
                 IN SubSeq(out.combined, at + 1, at + Len(out.calls[k].summary))
                       = out.calls[k].summary
           /\ Len(out.calls) = n + 1 <=> Len(out.combined) > gs.max_words
           /\ Len(out.calls) = n + 1 =>
                 /\ out.calls[n + 1].text = out.combined
                 /\ out.calls[n + 1].max_length = gs.max_words
                 /\ out.calls[n + 1].min_length = DefaultMinWords
           /\ (Len(out.calls) = n /\ ~out.raised) => out.value = out.combined

\* 1700 words: three chunks, the last of 100 words; the first call failed and
\* the other two summaries together were summarized again.
C5_Witness ==
    /\ gs.called /\ TRANSFORMER_AVAILABLE
    /\ Len(gs.text) = 2 * chunk_size + 100
    /\ gs.out.path = "chunked"
    /\ Len(gs.out.chunks) = 3
    /\ Len(gs.out.chunks[3]) = 100
    /\ gs.out.calls[1].raises
    /\ Len(gs.out.calls) = 4
    /\ ~gs.out.raised

\* C6 as stated: an input of more than 1000 words takes the chunked path under
\* either strategy.
C6_ChunksUnderEitherStrategy ==
    (gs.called /\ Len(gs.text) > LongInput) => gs.out.path = "chunked"

\* C6 amended: an input of more than 1000 words takes the chunked path exactly
\* when the model-backed strategy is available; under the fallback the whole
\* text goes through the extractive summarizer once, with no chunk and no call
\* of the pipeline.
C6_ChunksOnlyWithModel ==
    (gs.called /\ Len(gs.text) > LongInput) =>
        /\ gs.out.path = "chunked" <=> TRANSFORMER_AVAILABLE
        /\ ~TRANSFORMER_AVAILABLE =>
              /\ gs.out.path \in {"verbatim", "extractive"}
              /\ gs.out.chunks = <<>>
              /\ gs.out.calls = <<>>
              /\ gs.out.sentences = Sentences(gs.text)

\* More than 1000 words under the fallback: sentences are selected from the
\* whole text.
C6_Witness ==
    /\ gs.called /\ ~TRANSFORMER_AVAILABLE
    /\ Len(gs.text) > LongInput
    /\ gs.out.path = "extractive"
    /\ Len(gs.out.sentences) >= 4

\* C7: generate_summary never raises: a failing call on a chunk is skipped and
\* any other failing call is returned as an error string with the reason.
C7_NeverRaises ==
    gs.called =>
        /\ ~gs.out.raised
        /\ \A k \in DOMAIN gs.out.calls :
              (gs.out.calls[k].raises /\ gs.out.path = "single") =>
                  gs.out.value = ErrorString(gs.out.calls[k].reason)

----------------------------------------------------------------------------
(* POST /summarize *)

MinWords == 20
MaxRequests == 2

\* A markup tag of the raw text. Tags stand apart from the words, so that
\* dropping them joins no two words.
Tag(name) == [s |-> name, dot |-> FALSE]
IsWord(token) == token.s \notin {"<p>", "</p>"}

\* clean_text: the text of the markup, its whitespace collapsed and trimmed.
clean_text(raw_html) == SelectSeq(raw_html, IsWord)

Failure(error) == [route |-> "summarize", success |-> FALSE, error |-> error]

NotCalled == [called |-> FALSE]

\* Mutant of TooFewWords: only an empty text is rejected.
NoWords(word_count) == word_count < 1

\* if word_count < 20
TooFewWords(word_count) == word_count < MinWords

\* summarize() on the request body data, with the history file as it is and
\* the clock at timestamp; model and nlp decide what the two pipelines do.
\* The result holds the response, the file afterwards and the two calls made.
summarize(data, file, timestamp, transformer_available, spacy_available, model, nlp) ==
    LET unchanged(error, g, e) ==
            [response |-> Failure(error), file |-> file, gs |-> g, ents |-> e]
        cleaned == clean_text(data.text)
        word_count == Len(cleaned)
        g == generate_summary(cleaned, data.max_words, DefaultMinWords,
                              transformer_available, model)
        gcall == [called |-> TRUE, text |-> cleaned, max_words |-> data.max_words,
                  out |-> g]
        e == extract_entities(cleaned, spacy_available, nlp)
        ecall == [called |-> TRUE, text |-> cleaned, nlp |-> nlp, result |-> e]
    IN IF ~data.present
       THEN unchanged("No data provided", NotCalled, NotCalled)
       ELSE IF ~data.max_words_is_int
       THEN unchanged("An error occurred", NotCalled, NotCalled)
       ELSE IF data.text = <<>>
       THEN unchanged("Please provide text to summarize", NotCalled, NotCalled)
       ELSE IF TooFewWords(word_count)
       THEN unchanged("Text is too short. Please provide at least 20 words.",
                      NotCalled, NotCalled)
       ELSE IF g.raised
       THEN unchanged("An error occurred", gcall, NotCalled)
       ELSE IF e.raised
       THEN unchanged("An error occurred", gcall, ecall)
       ELSE IF ~file.ok
       THEN unchanged("An error occurred", gcall, ecall)
       ELSE [response |-> [route |-> "summarize", success |-> TRUE,
                           summary |-> g.value,
                           entities |-> e.value,
                           original_word_count |-> word_count,
                           summary_word_count |-> Len(g.value),
                           timestamp |-> timestamp],
             file |-> FileOf(Updated(load_history(file), cleaned, g.value, e.value,
                                     word_count, timestamp)),
             gs |-> gcall, ents |-> ecall]

\* Request bodies: none; a max_words that int() rejects; a blank text; markup
\* around 19 and around 20 words; 9 sentences; 1001 words.
NineSentences == Build(SentenceKinds(9, {4, 8}, FALSE))
Words(n) == Tuple([i \in 1..n |-> W("word")])
Body(text, max_words_is_int) ==
    [present |-> TRUE, text |-> text, max_words |-> DefaultMaxWords,
     max_words_is_int |-> max_words_is_int]
Requests ==
    {[present |-> FALSE],
     Body(NineSentences, FALSE),
     Body(<<>>, TRUE),
     Body(<<Tag("<p>")>> \o Words(MinWords - 1) \o <<Tag("</p>")>>, TRUE),
     Body(<<Tag("<p>")>> \o Words(MinWords) \o <<Tag("</p>")>>, TRUE),
     Body(NineSentences, TRUE),
     Body(Words(LongInput + 1), TRUE)}

\* What the two pipelines do during a request: every call of the summarizer
\* raises; every call returns 100 words; the calls on the chunks return 100
\* words and the next one raises; and spaCy raises or returns entities.
AllCalls(outcome) == Tuple([k \in 1..MostCalls |-> outcome])
NlpReturns == CHOOSE n \in NlpOutcomes : ~n.raises /\ n.ents # <<>>
NlpRaises == CHOOSE n \in NlpOutcomes : n.raises
Environments ==
    {[model |-> AllCalls(Raises), nlp |-> NlpReturns],
     [model |-> AllCalls(Returns(ChunkMaxLength)), nlp |-> NlpReturns],
     [model |-> Tuple([k \in 1..MostCalls |->
                          IF k <= 2 THEN Returns(ChunkMaxLength) ELSE Raises]),
      nlp |-> NlpReturns],
     [model |-> AllCalls(Returns(ChunkMaxLength)), nlp |-> NlpRaises]}

\* One POST /summarize, from the request to the response.
Summarize ==
    /\ now <= MaxRequests
    /\ \E data \in Requests, env \in Environments :
          LET r == summarize(data, history_file, now, TRANSFORMER_AVAILABLE,
                             SPACY_AVAILABLE, env.model, env.nlp)
          IN /\ request' = data
             /\ response' = r.response
             /\ history_file' = r.file
             /\ gs' = r.gs
             /\ ents' = r.ents
             /\ saved' = IF r.response.success
                         THEN Append(saved, r.file.data[Len(r.file.data)])
                         ELSE saved
    /\ now' = now + 1
    /\ UNCHANGED <<TRANSFORMER_AVAILABLE, SPACY_AVAILABLE, pc, loaded>>

InitReq ==
    /\ InitCommon
    /\ history_file \in {NoFile, FileOf(Preloaded(HistoryCap))}
    /\ now = 1

\* POST /summarize requests served one at a time.
SpecReq == InitReq /\ [][Summarize]_vars

\* The request passed the checks made before the text is counted.
WellFormed(data) == data.present /\ data.max_words_is_int /\ data.text # <<>>

\* C1: by the word count W of the normalised text, a request is rejected with
\* an error envelope and generate_summary is not called (W < 20), or
\* generate_summary returns the advisory string (20 <= W < 50), or it returns
\* a summary of at least one word (W >= 50), whatever the strategy and whether
\* or not calls on chunks fail.
C1_ThreeOutcomes ==
    (response.route = "summarize" /\ WellFormed(request)) =>
        LET words == Len(clean_text(request.text))
        IN /\ words < MinWords =>
                 /\ ~response.success
                 /\ response.error = "Text is too short. Please provide at least 20 words."
                 /\ ~gs.called
           /\ (MinWords <= words /\ words < ShortInput) =>
                 /\ gs.called /\ ~gs.out.raised
                 /\ gs.out.value = Advisory
           /\ words >= ShortInput =>
                 /\ gs.called /\ ~gs.out.raised
                 /\ Len(gs.out.value) >= 1

\* The entry a successful response stands for, as save_to_history builds it.
EntryOf(resp, history, cleaned) ==
    [id |-> Len(history) + 1,
     timestamp |-> resp.timestamp,
     original_word_count |-> resp.original_word_count,
     original_text |-> Preview(cleaned),
     summary |-> resp.summary,
     entities |-> resp.entities,
     summary_word_count |-> resp.summary_word_count]

\* C10: a request changes the history store exactly when it is answered with
\* success: then one entry holding its summary, entities and word count was
\* appended; a request rejected for missing data, a blank text or fewer than
\* 20 words, or stopped by an exception of generate_summary or
\* extract_entities, leaves the store as it was.
C10_StoreChangesIffSuccess ==
    [][LET old == load_history(history_file)
           new == load_history(history_file')
           cleaned == clean_text(request'.text)
       IN /\ response'.success <=> history_file' # history_file
          /\ response'.success =>
                /\ new = KeepLast(Append(old, EntryOf(response', old, cleaned)))
                /\ new[Len(new)].timestamp = now
                /\ response'.summary = gs'.out.value
                /\ response'.entities = ents'.result.value
                /\ response'.original_word_count = Len(cleaned)
          /\ (~WellFormed(request') \/ Len(cleaned) < MinWords) =>
                /\ ~response'.success
                /\ history_file' = history_file
                /\ ~gs'.called /\ ~ents'.called
          /\ ((gs'.called /\ gs'.out.raised)
                \/ (ents'.called /\ ents'.result.raised)) =>
                /\ ~response'.success
                /\ history_file' = history_file
      ]_vars

\* The store holds the entry of an earlier request; the last request was
\* stopped by an exception of extract_entities and changed nothing.
C10_Witness ==
    /\ response.route = "summarize" /\ ~response.success
    /\ ents.called /\ ents.result.raised
    /\ Len(load_history(history_file)) = 1
    /\ history_file.data[1].summary_word_count > 0

====
